---- MODULE Spec2Model ----
(***************************************************************************)
(* A model of the two utilities of the workshop repository that carry      *)
(* design content:                                                         *)
(*   - DataPartitioner  (src/follow-up/instructions/test.py)               *)
(*   - apply_scd_type2_logic (src/follow-up/instructions/test2.py)         *)
(*   - extract_api_data (src/follow-up/instructions/test2.py)              *)
(*   - clean (src/Modules/Modules_2-3/.../etl/etl.py)                      *)
(* Each utility has its own specification (SpecPartitioner,                *)
(* SpecReconciler, SpecExtractor, SpecClean); the variables of the other   *)
(* ones stay at their initial values.                                      *)
(***************************************************************************)
EXTENDS Integers, Sequences, FiniteSets, Bags, TLC

VARIABLES
    \* ---- DataPartitioner object and its environment ----
    constructed,      \* "new" | "ok" | "ValueError" (outcome of __init__)
    reqSize,          \* maxFileSizeMb argument the caller passed
    reqCompression,   \* compressionType argument the caller passed
    maxFileSizeMb,    \* self.maxFileSizeMb
    compressionType,  \* self.compressionType
    dirs,             \* partition directories that exist under the output root
    files,            \* file path -> [rows, compression] for every parquet file
    now,              \* wall clock, in ticks of 1/TicksPerSecond second
    calls,            \* number of partition_data / read_partition calls made
    lastOp,           \* "none" | "partition" | "read"
    given,            \* dataset as the caller passed it to the last call
    dataframe,        \* the caller's dataset object after the last call
    error,            \* exception raised by the last call, or "none"
    stats,            \* value returned by the last partition_data, or NoValue
    written,          \* files written by the last partition_data, in order
    filesBefore,      \* files (path -> content) as they were before the last call
    dirsBefore,       \* dirs as they were before the last call
    failedWrite,      \* which to_parquet of the last call raised (0: none did)
    dateArg,          \* date_value passed to the last read_partition
    readResult,       \* rows returned by the last read_partition, or NoValue
    rowsSeen          \* rows passed to partition_data so far, over all calls

VARIABLES
    \* ---- apply_scd_type2_logic and the history table its caller keeps ----
    history,          \* the dimension table: result of the last successful call
    passedExisting,   \* existing_records as the caller passed it to the last call
    passedIncoming,   \* new_records as the caller passed it to the last call
    existing,         \* the caller's existing_records object after the last call
    incoming,         \* the caller's new_records object after the last call
    process_date,     \* process_date argument of the last call
    rerror,           \* exception raised by the last call, or "none"
    rcalls,           \* number of apply_scd_type2_logic calls made
    rowsIn,           \* incoming rows passed so far, over all calls
    seenKeys          \* business keys of the incoming rows of the successful calls

VARIABLES
    \* ---- one extract_api_data run, its rate limiter and the server ----
    estate,               \* "idle" | "loop" | "ready" | "done" | "raised"
    max_pages,            \* max_pages argument: NoInt (None) or Some(n)
    rate_limit_requests,  \* rate_limit_requests argument
    rate_limit_period,    \* rate_limit_period argument, in clock units
    current_page,         \* current_page
    all_data,             \* all_data
    clock,                \* time.time()
    requests,             \* rate_limiter.requests
    issued,               \* the requests sent: [time, page] of each, in order
    fetched               \* page_data of every response received, in order

VARIABLES
    \* ---- etl.clean and the module state it keeps ----
    seen_ids,             \* the module-level set seen_ids
    cleanGiven,           \* the dataset as the caller passed it to the last clean
    cleanOut,             \* the dataset the last clean returned, or NoValue
    cleanError,           \* exception raised by the last clean, or "none"
    cleanCalls,           \* number of clean calls made
    duplicatesPrinted     \* the last clean printed "duplicates detected"

evars == <<estate, max_pages, rate_limit_requests, rate_limit_period, current_page,
           all_data, clock, requests, issued, fetched>>

cvars == <<seen_ids, cleanGiven, cleanOut, cleanError, cleanCalls, duplicatesPrinted>>

rvars == <<history, passedExisting, passedIncoming, existing, incoming, process_date,
           rerror, rcalls, rowsIn, seenKeys>>

pvars == <<constructed, reqSize, reqCompression, maxFileSizeMb, compressionType,
           dirs, files, now, calls, lastOp, given, dataframe, error, stats,
           written, filesBefore, dirsBefore, failedWrite, dateArg, readResult, rowsSeen>>

\* ------------------------------------------------------------------------
\* Bounds of the model
MaxRows == 2            \* rows passed to partition_data in one behaviour
MaxCalls == 2           \* partitioner calls in one behaviour
MaxClock == 3           \* last clock tick
TicksPerSecond == 2     \* clock ticks in one second of the file-name timestamp
MaxIncoming == 2        \* incoming rows passed to the reconciler in one behaviour
MaxReconciles == 2      \* apply_scd_type2_logic calls in one behaviour
MaxDate == 2            \* last process_date
MaxTime == 4            \* last value of the extractor's clock
MaxRequests == 3        \* requests sent in one extract_api_data run
MaxPagesArg == 2        \* largest max_pages argument
MaxRate == 2            \* largest rate_limit_requests argument
MaxPeriod == 2          \* largest rate_limit_period argument
PageSize == 2           \* page_size argument
MaxCleans == 2          \* clean calls in one behaviour
MaxCleanRows == 2       \* rows of a dataset passed to clean

\* ------------------------------------------------------------------------
\* Values
None == "None"          \* Python None, where a string is expected
NoInt == <<>>           \* Python None, where a number is expected: Some(n) or NoInt
Some(v) == <<v>>
NoValue == <<>>         \* no value returned (the call raised, or was not made)

Min(a, b) == IF a < b THEN a ELSE b

\* Calendar dates used by the inputs.
Day1 == [year |-> 2024, month |-> 1, day |-> 1]
Day2 == [year |-> 2024, month |-> 1, day |-> 2]
Dates == {Day1, Day2}
NoDate == [year |-> 0, month |-> 0, day |-> 0]

\* A value of the date column: a string or a Timestamp of some calendar date
\* and time of day, or a missing value.
DateValue(kind, d, tod) == [kind |-> kind, date |-> d, tod |-> tod]
NaT == DateValue("NaT", NoDate, 0)            \* pandas missing date/time
NoColumn == DateValue("absent", NoDate, 0)    \* the row has no date column

\* Rows of the input datasets.  size is the row's share of
\* memory_usage(deep=True), in bytes.
SampleRows ==
    { [date |-> DateValue("ts", Day1, 0), size |-> 400000],
      [date |-> DateValue("str", Day1, 1), size |-> 1500000],
      [date |-> DateValue("ts", Day2, 0), size |-> 400000],
      [date |-> NaT, size |-> 400000] }

\* Rows of a dataset that has no date column.
UndatedRows == { [date |-> NoColumn, size |-> 400000] }

SeqsUpTo(S, n) == UNION { [1..k -> S] : k \in 0..n }

\* The datasets of at most n rows.
Datasets(n) ==
    { [hasDate |-> TRUE, rows |-> r] : r \in SeqsUpTo(SampleRows, n) }
    \cup { [hasDate |-> FALSE, rows |-> r] : r \in SeqsUpTo(UndatedRows, Min(n, 1)) }

\* ------------------------------------------------------------------------
\* DataPartitioner: class constants
SUPPORTED_COMPRESSIONS == {"snappy", "gzip", "brotli", "lz4", None}
DEFAULT_MAX_FILE_SIZE_MB == 100
DEFAULT_COMPRESSION == "snappy"

\* Python's `x or default`: the default replaces every falsy x (None, 0, "").
IntOrDefault(x, default) == IF x = NoInt \/ x = Some(0) THEN default ELSE x[1]
StrOrDefault(x, default) == IF x = None \/ x = "" THEN default ELSE x

\* _validate_configuration: the exception it raises, or "none".
_validate_configuration(size, compression) ==
    IF compression \notin SUPPORTED_COMPRESSIONS THEN "ValueError"
    ELSE IF size <= 0 THEN "ValueError"
    ELSE "none"

\* __init__ (lines 34-39): the fields it sets and the outcome of validation.
InitFields(size, compression) ==
    LET m == IntOrDefault(size, DEFAULT_MAX_FILE_SIZE_MB)
        c == StrOrDefault(compression, DEFAULT_COMPRESSION)
    IN  [maxFileSizeMb |-> m, compressionType |-> c,
         outcome |-> _validate_configuration(m, c)]

\* ------------------------------------------------------------------------
\* Dates and paths

\* pd.to_datetime on one value of the date column: strings are parsed to
\* Timestamps, missing values become NaT.
to_datetime(v) ==
    IF v.kind \in {"str", "ts"} THEN DateValue("ts", v.date, v.tod) ELSE NaT

\* Series.dt.date: the calendar date of a Timestamp, time of day dropped.
dt_date(v) == v.date

\* str(date_value), as stored in partitionDetails.
StrOfDate(d) == DateValue("str", d, 0)

DateLess(a, b) ==
    \/ a.year < b.year
    \/ a.year = b.year /\ a.month < b.month
    \/ a.year = b.year /\ a.month = b.month /\ a.day < b.day

RECURSIVE SortDates(_)
SortDates(S) ==
    IF S = {} THEN <<>>
    ELSE LET m == CHOOSE x \in S : \A y \in S : ~DateLess(y, x)
         IN  <<m>> \o SortDates(S \ {m})

\* _get_partition_path: the directory year=Y/month=MM/day=DD of a date value
\* (a string is parsed first).  The caller of this operator also creates it.
_get_partition_path(date_value) ==
    LET v == IF date_value.kind = "str" THEN to_datetime(date_value) ELSE date_value
    IN  <<v.date.year, v.date.month, v.date.day>>

\* datetime.now().strftime("%Y%m%d_%H%M%S"): the clock truncated to seconds.
Timestamp(t) == t \div TicksPerSecond

\* _generate_filename: data_<timestamp>_chunk_<NNN>.parquet in the directory.
_generate_filename(partition_path, chunk_index, t) ==
    [dir |-> partition_path, ts |-> Timestamp(t), chunk |-> chunk_index]

\* ------------------------------------------------------------------------
\* _write_partition_data

RECURSIVE SumSizes(_)
SumSizes(rows) == IF rows = <<>> THEN 0 ELSE Head(rows).size + SumSizes(Tail(rows))

\* int((maxFileSizeMb * 1024 * 1024) / (memory_usage.sum() / len))
approximateRowsPerChunk(partition_data, maxMb) ==
    (maxMb * 1024 * 1024 * Len(partition_data)) \div SumSizes(partition_data)

\* for i in range(0, len, step): chunk = iloc[i : i + step]   (step > 0)
RECURSIVE ChunkLoop(_, _, _)
ChunkLoop(partition_data, i, step) ==
    IF i >= Len(partition_data) THEN <<>>
    ELSE <<SubSeq(partition_data, i + 1, Min(i + step, Len(partition_data)))>>
         \o ChunkLoop(partition_data, i + step, step)

\* The chunks written for one partition, in order, the value returned and
\* the exception raised (range() with step 0 raises ValueError before any
\* chunk is written).
_write_partition_data(partition_data, maxMb) ==
    LET k == approximateRowsPerChunk(partition_data, maxMb)
    IN  IF k < Len(partition_data)
        THEN IF k = 0
             THEN [chunks |-> <<>>, filesCreated |-> 0, err |-> "ValueError"]
             ELSE LET cs == ChunkLoop(partition_data, 0, k)
                  IN  [chunks |-> cs, filesCreated |-> Len(cs), err |-> "none"]
        ELSE [chunks |-> <<partition_data>>, filesCreated |-> 1, err |-> "none"]

\* ------------------------------------------------------------------------
\* partition_data

\* dataframe[dateColumn] = pd.to_datetime(dataframe[dateColumn])  (line 119)
CoerceDates(rows) == [i \in 1..Len(rows) |-> [rows[i] EXCEPT !.date = to_datetime(@)]]

\* groupby(dataframe[dateColumn].dt.date): the group keys in ascending order;
\* rows whose key is missing belong to no group (groupby's dropna default).
GroupKeys(rows) ==
    SortDates({ dt_date(rows[i].date) : i \in { j \in 1..Len(rows) : rows[j].date # NaT } })

\* The rows of one group, in input order.
GroupRows(rows, d) == SelectSeq(rows, LAMBDA r : r.date # NaT /\ dt_date(r.date) = d)

\* The loop of lines 131-144 over the groups `keys`; acc carries the
\* directories created, the chunks written, partitionStats and the exception
\* that ended the loop.
RECURSIVE PartitionLoop(_, _, _, _)
PartitionLoop(keys, rows, maxMb, acc) ==
    IF keys = <<>> \/ acc.err # "none" THEN acc
    ELSE LET date_value == Head(keys)
             partition_data == GroupRows(rows, date_value)
             partition_path == _get_partition_path(DateValue("date", date_value, 0))
             w == _write_partition_data(partition_data, maxMb)
             ws == [c \in 1..Len(w.chunks) |->
                       [dir |-> partition_path, chunk |-> c - 1, rows |-> w.chunks[c]]]
         IN  PartitionLoop(Tail(keys), rows, maxMb,
                [dirs |-> acc.dirs \cup {partition_path},
                 writes |-> acc.writes \o ws,
                 totalPartitions |->
                     IF w.err = "none" THEN acc.totalPartitions + 1 ELSE acc.totalPartitions,
                 totalFiles |->
                     IF w.err = "none" THEN acc.totalFiles + w.filesCreated ELSE acc.totalFiles,
                 partitionDetails |->
                     IF w.err = "none"
                     THEN Append(acc.partitionDetails,
                                 [date |-> StrOfDate(date_value),
                                  rows |-> Len(partition_data),
                                  files |-> w.filesCreated,
                                  path |-> partition_path])
                     ELSE acc.partitionDetails,
                 err |-> w.err])

\* The j-th file written by a call that starts at clock t, when the clock
\* ticks once during the call, after tickAt files have been written.
WriteTime(t, j, tickAt) == IF j > tickAt THEN t + 1 ELSE t

\* to_parquet on every chunk in order: a file written to an existing path
\* replaces it.
RECURSIVE WriteFiles(_, _, _, _, _, _)
WriteFiles(fs, writes, j, t, tickAt, compression) ==
    IF j > Len(writes) THEN fs
    ELSE LET filePath == _generate_filename(writes[j].dir, writes[j].chunk,
                                            WriteTime(t, j, tickAt))
         IN  WriteFiles((filePath :> [rows |-> writes[j].rows, compression |-> compression])
                            @@ fs,
                        writes, j + 1, t, tickAt, compression)

\* The files the call wrote, in order: path and rows of each.
WrittenLog(writes, t, tickAt) ==
    [j \in 1..Len(writes) |->
        [path |-> _generate_filename(writes[j].dir, writes[j].chunk, WriteTime(t, j, tickAt)),
         rows |-> writes[j].rows]]

\* A partition_data that finds the date column in every dataframe.
DateColumnAlwaysFound(df) == FALSE

\* self.dateColumn not in dataframe.columns  (line 115)
DateColumnMissing(df) == ~df.hasDate

\* A call that removes the files it wrote when a write raises.
WritesRolledBack(writes, failAt) == IF failAt = 0 THEN writes ELSE <<>>

\* The to_parquet calls that completed when the failAt-th one raises: the
\* exception leaves _write_partition_data and the loop of partition_data, no
\* handler catches it, so nothing after it runs and nothing is removed.
CompletedWrites(writes, failAt) ==
    IF failAt = 0 THEN writes ELSE SubSeq(writes, 1, failAt - 1)

\* The directories that exist after the call: _get_partition_path makes the
\* directory of a partition before its first file is written.
DirsMade(ds, r, failAt) ==
    IF failAt = 0 THEN r.dirs ELSE ds \cup { r.writes[j].dir : j \in 1..failAt }

EmptyAcc(ds) ==
    [dirs |-> ds, writes |-> <<>>, totalPartitions |-> 0, totalFiles |-> 0,
     partitionDetails |-> <<>>, err |-> "none"]

\* ------------------------------------------------------------------------
\* read_partition

\* A listing that returns the data files of every directory.
FilesAnywhere(fs, partition_path) == DOMAIN fs

\* partition_path.glob("*.parquet")
FilesIn(fs, partition_path) == { f \in DOMAIN fs : f.dir = partition_path }

\* pd.concat of the files read, in the order `order` lists them.
RECURSIVE ConcatFiles(_, _)
ConcatFiles(fs, order) ==
    IF order = <<>> THEN <<>> ELSE fs[Head(order)].rows \o ConcatFiles(fs, Tail(order))

\* The orders in which glob may list the files of a set.
Orders(S) == { o \in [1..Cardinality(S) -> S] : \A i, j \in DOMAIN o : i # j => o[i] # o[j] }

\* Date values a caller passes to read_partition.
ReadDates == { DateValue("str", d, 0) : d \in Dates } \cup { DateValue("ts", Day1, 1) }

\* ------------------------------------------------------------------------
\* Partitioner: initial state and actions

\* Arguments a caller passes to the constructor.
ConstructorArgs ==
    { <<NoInt, None>>, <<Some(0), "gzip">>, <<Some(0 - 1), None>>,
      <<Some(1), None>>, <<Some(1), "gzip">>, <<Some(1), "zip">> }

NoDataset == [hasDate |-> FALSE, rows |-> <<>>]

PInit ==
    /\ constructed = "new"
    /\ reqSize = NoInt
    /\ reqCompression = None
    /\ maxFileSizeMb = 0
    /\ compressionType = None
    /\ dirs = {}
    /\ files = <<>>
    /\ now = 0
    /\ calls = 0
    /\ lastOp = "none"
    /\ given = NoDataset
    /\ dataframe = NoDataset
    /\ error = "none"
    /\ stats = NoValue
    /\ written = <<>>
    /\ filesBefore = <<>>
    /\ dirsBefore = {}
    /\ failedWrite = 0
    /\ dateArg = NaT
    /\ readResult = NoValue
    /\ rowsSeen = 0

\* DataPartitioner(outputDirectory, maxFileSizeMb, compressionType)
Construct(size, compression) ==
    /\ constructed = "new"
    /\ LET f == InitFields(size, compression)
       IN  /\ maxFileSizeMb' = f.maxFileSizeMb
           /\ compressionType' = f.compressionType
           /\ constructed' = IF f.outcome = "none" THEN "ok" ELSE f.outcome
    /\ reqSize' = size
    /\ reqCompression' = compression
    /\ UNCHANGED <<dirs, files, now, calls, lastOp, given, dataframe, error, stats,
                   written, filesBefore, dirsBefore, failedWrite, dateArg, readResult,
                   rowsSeen>>
    /\ UNCHANGED <<rvars, evars, cvars>>

\* partition_data(dataframe).  The clock ticks once during the call, after
\* some number tickAt of its files have been written; the failAt-th
\* to_parquet of the call raises OSError (failAt = 0: none raises).
PartitionData(df) ==
    /\ constructed = "ok"
    /\ calls < MaxCalls
    /\ now < MaxClock
    /\ calls' = calls + 1
    /\ now' = now + 1
    /\ lastOp' = "partition"
    /\ given' = df
    /\ rowsSeen' = rowsSeen + Len(df.rows)
    /\ filesBefore' = files
    /\ dirsBefore' = dirs
    /\ dateArg' = NaT
    /\ readResult' = NoValue
    /\ IF DateColumnMissing(df)
       THEN /\ error' = "ValueError"
            /\ dataframe' = df
            /\ stats' = NoValue
            /\ written' = <<>>
            /\ failedWrite' = 0
            /\ UNCHANGED <<dirs, files>>
       ELSE LET rows == CoerceDates(df.rows)
                r == PartitionLoop(GroupKeys(rows), rows, maxFileSizeMb, EmptyAcc(dirs))
            IN  /\ dataframe' = [df EXCEPT !.rows = rows]
                /\ \E failAt \in 0..Len(r.writes) :
                       LET done == CompletedWrites(r.writes, failAt)
                       IN  /\ failedWrite' = failAt
                           /\ dirs' = DirsMade(dirs, r, failAt)
                           /\ error' = IF failAt = 0 THEN r.err ELSE "OSError"
                           /\ \E tickAt \in 0..Len(done) :
                                  /\ files' = WriteFiles(files, done, 1, now, tickAt,
                                                         compressionType)
                                  /\ written' = WrittenLog(done, now, tickAt)
                /\ stats' = IF error' = "none"
                            THEN Some([totalPartitions |-> r.totalPartitions,
                                       totalFiles |-> r.totalFiles,
                                       totalRows |-> Len(rows),
                                       partitionDetails |-> r.partitionDetails])
                            ELSE NoValue
    /\ UNCHANGED <<constructed, reqSize, reqCompression, maxFileSizeMb, compressionType>>
    /\ UNCHANGED <<rvars, evars, cvars>>

\* read_partition(date_value); _get_partition_path makes the directory
\* (mkdir, line 80) before the existence test of line 216; glob lists the
\* files in the order `order`.
ReadPartition(date_value) ==
    /\ constructed = "ok"
    /\ calls < MaxCalls
    /\ calls' = calls + 1
    /\ lastOp' = "read"
    /\ given' = NoDataset
    /\ dataframe' = NoDataset
    /\ filesBefore' = files
    /\ dirsBefore' = dirs
    /\ failedWrite' = 0
    /\ dateArg' = date_value
    /\ stats' = NoValue
    /\ written' = <<>>
    /\ LET partition_path == _get_partition_path(date_value)
           parquet_files == FilesIn(files, partition_path)
       IN  /\ dirs' = dirs \cup {partition_path}
           /\ IF partition_path \notin dirs' \/ parquet_files = {}
              THEN /\ error' = "FileNotFoundError"
                   /\ readResult' = NoValue
              ELSE /\ error' = "none"
                   /\ \E order \in Orders(parquet_files) :
                          readResult' = Some(ConcatFiles(files, order))
    /\ UNCHANGED <<constructed, reqSize, reqCompression, maxFileSizeMb, compressionType,
                   files, now, rowsSeen>>
    /\ UNCHANGED <<rvars, evars, cvars>>

\* Time passes between calls.
Tick ==
    /\ now < MaxClock
    /\ now' = now + 1
    /\ UNCHANGED <<constructed, reqSize, reqCompression, maxFileSizeMb, compressionType,
                   dirs, files, calls, lastOp, given, dataframe, error, stats,
                   written, filesBefore, dirsBefore, failedWrite, dateArg, readResult,
                   rowsSeen>>
    /\ UNCHANGED <<rvars, evars, cvars>>

PNext ==
    \/ \E args \in ConstructorArgs : Construct(args[1], args[2])
    \/ \E df \in Datasets(MaxRows - rowsSeen) : PartitionData(df)
    \/ \E date_value \in ReadDates : ReadPartition(date_value)
    \/ Tick

\* Before extract_api_data is called.
EInit ==
    /\ estate = "idle"
    /\ max_pages = NoInt
    /\ rate_limit_requests = 0
    /\ rate_limit_period = 0
    /\ current_page = 0
    /\ all_data = <<>>
    /\ clock = 0
    /\ requests = <<>>
    /\ issued = <<>>
    /\ fetched = <<>>

\* The etl module after import: seen_ids = set().
CInit ==
    /\ seen_ids = {}
    /\ cleanGiven = <<>>
    /\ cleanOut = NoValue
    /\ cleanError = "none"
    /\ cleanCalls = 0
    /\ duplicatesPrinted = FALSE

\* The reconciler's variables while only the partitioner runs.
RIdle ==
    /\ history = [cols |-> {}, rows |-> <<>>]
    /\ passedExisting = [cols |-> {}, rows |-> <<>>]
    /\ passedIncoming = [cols |-> {}, rows |-> <<>>]
    /\ existing = [cols |-> {}, rows |-> <<>>]
    /\ incoming = [cols |-> {}, rows |-> <<>>]
    /\ process_date = 0
    /\ rerror = "none"
    /\ rcalls = 0
    /\ rowsIn = 0
    /\ seenKeys = {}

vars == <<pvars, rvars, evars, cvars>>

InitPartitioner == PInit /\ RIdle /\ EInit /\ CInit

SpecPartitioner == InitPartitioner /\ [][PNext]_vars

\* ------------------------------------------------------------------------
\* Partitioner: vocabulary of the properties

RECURSIVE SeqToBag(_)
SeqToBag(q) == IF q = <<>> THEN EmptyBag ELSE SetToBag({Head(q)}) (+) SeqToBag(Tail(q))

RECURSIVE SumLens(_)
SumLens(ws) == IF ws = <<>> THEN 0 ELSE Len(Head(ws).rows) + SumLens(Tail(ws))

\* The last call was a partition_data call on a dataset with the date column
\* and none of its writes raised an I/O error.
Partitioned == lastOp = "partition" /\ given.hasDate /\ failedWrite = 0

\* ... and it returned its statistics.
PartitionReturned == Partitioned /\ error = "none"

\* The files the last call wrote into a directory, in the order written.
WrittenIn(partition_path) == SelectSeq(written, LAMBDA w : w.path.dir = partition_path)

\* All rows of the files the last call wrote, file after file.
RECURSIVE RowsOf(_)
RowsOf(ws) == IF ws = <<>> THEN <<>> ELSE Head(ws).rows \o RowsOf(Tail(ws))

\* The rows read_partition returns for a date, as a multiset.
ReadBag(fs, date_value) ==
    LET fset == FilesIn(fs, _get_partition_path(date_value))
    IN  IF fset = {} THEN EmptyBag
        ELSE SeqToBag(ConcatFiles(fs, CHOOSE o \in Orders(fset) : TRUE))

\* The multiset union of read_partition over the dates of partitionDetails.
RECURSIVE ReadBackBag(_, _)
ReadBackBag(fs, details) ==
    IF details = <<>> THEN EmptyBag
    ELSE ReadBag(fs, Head(details).date) (+) ReadBackBag(fs, Tail(details))

\* The groups of the caller's dataset, by calendar date.
GroupsOfInput == { d \in Dates : GroupRows(dataframe.rows, d) # <<>> }

maxBytes == maxFileSizeMb * 1024 * 1024

\* C1: after one partition_data(D) into an empty output root, reading back
\* every date of partitionDetails yields exactly the rows of D as a multiset.
C1_RoundTrip ==
    (PartitionReturned /\ calls = 1 /\ filesBefore = <<>>)
        => ReadBackBag(files, stats[1].partitionDetails) = SeqToBag(dataframe.rows)

\* C2: in one partition_data call every input row, rows with a missing date
\* included, is written to exactly one file, in the directory of its calendar
\* date; per partition the files' row counts sum to the partition's rows, and
\* the rows written number exactly the input rows.
C2_ExhaustivePartitioning ==
    PartitionReturned =>
        /\ SeqToBag(RowsOf(written)) = SeqToBag(dataframe.rows)
        /\ \A i \in DOMAIN written : \A j \in DOMAIN written[i].rows :
               written[i].path.dir = _get_partition_path(written[i].rows[j].date)
        /\ \A i \in DOMAIN stats[1].partitionDetails :
               LET det == stats[1].partitionDetails[i]
               IN  SumLens(WrittenIn(det.path)) = det.rows
        /\ SumLens(written) = Len(given.rows)

\* C7: for every partition whose estimated total size exceeds the maximum,
\* every file written holds at most k = floor(maxBytes / avgRowSize) rows and
\* the number of files is ceil(rows / k), i.e. files * k >= rows > (files - 1) * k.
C7_BoundedChunks ==
    Partitioned =>
        \A d \in GroupsOfInput :
            LET part == GroupRows(dataframe.rows, d)
                k == approximateRowsPerChunk(part, maxFileSizeMb)
                ws == WrittenIn(_get_partition_path(DateValue("date", d, 0)))
            IN  SumSizes(part) > maxBytes =>
                    /\ \A i \in DOMAIN ws : Len(ws[i].rows) <= k
                    /\ Len(ws) * k >= Len(part)
                    /\ (Len(ws) - 1) * k < Len(part)

\* Some partition of the input has an average row size above the maximum.
RowExceedsMaximum ==
    \E d \in GroupsOfInput :
        SumSizes(GroupRows(dataframe.rows, d)) > maxBytes * Len(GroupRows(dataframe.rows, d))

\* C8: when the maximum file size is smaller than the estimated size of one
\* row, partition_data completes without error and writes at least one file
\* for every non-empty partition, every file holding at least one row.
C8_TinyMaximum ==
    (Partitioned /\ RowExceedsMaximum) =>
        /\ error = "none"
        /\ \A d \in GroupsOfInput :
               WrittenIn(_get_partition_path(DateValue("date", d, 0))) # <<>>
        /\ \A i \in DOMAIN written : Len(written[i].rows) >= 1

\* C9: across the partition_data calls on one output root and across the
\* chunks of one call no two written files have the same path: no file of an
\* earlier run is overwritten.
C9_UniquePaths ==
    lastOp = "partition" =>
        /\ \A i, j \in DOMAIN written : i # j => written[i].path # written[j].path
        /\ \A i \in DOMAIN written : written[i].path \notin DOMAIN filesBefore

\* C13: constructing a DataPartitioner with a maximum file size of zero or
\* below fails with a configuration error: no partitioner is made from such
\* a request.
C13_NonPositiveSizeRejected ==
    (constructed # "new" /\ reqSize # NoInt /\ reqSize[1] <= 0)
        => constructed = "ValueError"

\* C14: a compression value outside snappy, gzip, brotli, lz4, none makes
\* construction fail; otherwise every file written later has exactly the
\* compression the caller passed, no compression included.
C14_RequestedCompression ==
    constructed # "new" =>
        IF reqCompression \notin {"snappy", "gzip", "brotli", "lz4", None}
        THEN constructed = "ValueError"
        ELSE \A i \in DOMAIN written :
                 files[written[i].path].compression = reqCompression

\* C15: partition_data on a dataset without the date column raises the
\* schema error, returns nothing, creates no directory, writes no file and
\* leaves the dataset as it was passed.
C15_MissingDateColumn ==
    (lastOp = "partition" /\ ~given.hasDate) =>
        /\ error = "ValueError"
        /\ stats = NoValue
        /\ dirs = dirsBefore
        /\ files = filesBefore
        /\ written = <<>>
        /\ dataframe = given

\* Such a call, on a dataset with rows, after an earlier call wrote files.
C15_Witness ==
    /\ lastOp = "partition" /\ ~given.hasDate
    /\ given.rows # <<>>
    /\ error = "ValueError"
    /\ files # <<>>

\* The data files the directory of the date read held before the call.
HeldBeforeRead == { f \in DOMAIN filesBefore : f.dir = _get_partition_path(dateArg) }

\* C16: read_partition raises the not-found error and returns no dataset
\* when the directory of the date does not exist and when it exists but
\* holds no data file; it returns a dataset only when the directory holds at
\* least one data file.
C16_ReadNotFound ==
    lastOp = "read" =>
        IF HeldBeforeRead = {}
        THEN error = "FileNotFoundError" /\ readResult = NoValue
        ELSE error = "none" /\ readResult # NoValue

\* A read of a date whose directory existed before the call and held no
\* data file, while another directory holds files.
C16_Witness ==
    /\ lastOp = "read"
    /\ _get_partition_path(dateArg) \in dirsBefore
    /\ HeldBeforeRead = {}
    /\ error = "FileNotFoundError"
    /\ files # <<>>

\* The calendar dates of the dataset as the caller passed it.
InputDates ==
    { given.rows[i].date.date :
        i \in { j \in DOMAIN given.rows : given.rows[j].date.kind \in {"str", "ts"} } }

RECURSIVE SumDetailRows(_)
SumDetailRows(details) ==
    IF details = <<>> THEN 0 ELSE Head(details).rows + SumDetailRows(Tail(details))

RECURSIVE SumDetailFiles(_)
SumDetailFiles(details) ==
    IF details = <<>> THEN 0 ELSE Head(details).files + SumDetailFiles(Tail(details))

\* C17: in the statistics partition_data returns, totalPartitions is the
\* number of partitionDetails entries and of distinct calendar dates of the
\* input; totalFiles is the sum of the per-partition file counts and the
\* number of files the call wrote; totalRows is the input row count and the
\* sum of the per-partition row counts.
C17_StatsConsistent ==
    PartitionReturned =>
        LET s == stats[1]
        IN  /\ s.totalPartitions = Len(s.partitionDetails)
            /\ s.totalPartitions = Cardinality(InputDates)
            /\ s.totalFiles = SumDetailFiles(s.partitionDetails)
            /\ s.totalFiles = Len(written)
            /\ s.totalRows = Len(given.rows)
            /\ s.totalRows = SumDetailRows(s.partitionDetails)

\* The to_parquet calls partition_data makes on the dataset of the last
\* call when none of them raises.
PlannedWrites ==
    PartitionLoop(GroupKeys(dataframe.rows), dataframe.rows, maxFileSizeMb,
                  EmptyAcc(dirsBefore)).writes

\* C20: when a write of partition_data raises, the exception reaches the
\* caller; the files written before it in that call (earlier chunks and
\* earlier partitions) are on disk with the rows written, no file is removed
\* and no file is written after the failing one.
C20_WriteFailure ==
    (lastOp = "partition" /\ failedWrite > 0) =>
        /\ error = "OSError" /\ stats = NoValue
        /\ Len(written) = failedWrite - 1
        /\ \A j \in DOMAIN written :
               /\ written[j].rows = PlannedWrites[j].rows
               /\ written[j].path.dir = PlannedWrites[j].dir
               /\ written[j].path \in DOMAIN files
               /\ files[written[j].path].rows = written[j].rows
        /\ \A f \in DOMAIN filesBefore : f \in DOMAIN files
        /\ \A f \in DOMAIN files :
               (\A j \in DOMAIN written : written[j].path # f)
                   => f \in DOMAIN filesBefore /\ files[f] = filesBefore[f]

\* The second write of a call raised: the file written before it is on disk
\* with its rows.
C20_Witness ==
    /\ lastOp = "partition" /\ failedWrite = 2
    /\ error = "OSError"
    /\ Len(written) = 1
    /\ written[1].path \in DOMAIN files
    /\ files[written[1].path].rows = written[1].rows

\* The rows of the caller's dataset whose calendar date is d, in input order.
RowsOfDate(d) ==
    SelectSeq(dataframe.rows, LAMBDA r : r.date.kind = "ts" /\ r.date.date = d)

\* C24: a partition is written as exactly one file if and only if its
\* estimated total size is at most the maximum, and the code's test
\* floor(maxBytes / avgRowSize) < rows is true for exactly the partitions
\* whose estimated total size exceeds the maximum.
C24_SingleFileIffFits ==
    Partitioned =>
        \A d \in GroupsOfInput :
            LET part == RowsOfDate(d)
                ws == WrittenIn(_get_partition_path(DateValue("date", d, 0)))
            IN  /\ (Len(ws) = 1) <=> (SumSizes(part) <= maxBytes)
                /\ (approximateRowsPerChunk(part, maxFileSizeMb) < Len(part))
                       <=> (SumSizes(part) > maxBytes)

\* C25: in every partition the rows written are the input rows of the date
\* in input order; the chunk files, taken in chunk-index order 0, 1, 2, ...,
\* are consecutive disjoint ranges whose concatenation is the partition.
C25_RowOrder ==
    Partitioned =>
        \A d \in GroupsOfInput :
            LET ws == WrittenIn(_get_partition_path(DateValue("date", d, 0)))
            IN  /\ RowsOf(ws) = RowsOfDate(d)
                /\ \A i \in DOMAIN ws : ws[i].path.chunk = i - 1

\* C27: read_partition leaves the directories and the files under the
\* output root as they were, whether it returns a dataset or raises.
C27_ReadChangesNothing ==
    lastOp = "read" => dirs = dirsBefore /\ files = filesBefore

\* ------------------------------------------------------------------------
\* apply_scd_type2_logic (src/follow-up/instructions/test2.py)
\* ------------------------------------------------------------------------

\* A cell of a frame is Some(value) or Null (NaN / NaT / None).
Null == <<>>
IsNa(x) == x = Null

\* Default column names of apply_scd_type2_logic.
business_key == "customer_id"
effective_date_col == "effective_date"
expiration_date_col == "expiration_date"
is_current_col == "is_current"

scd_metadata_cols == {business_key, effective_date_col, expiration_date_col, is_current_col}
Columns == scd_metadata_cols \cup {"city", "phone"}

\* A frame is [cols, rows]: the set of its columns and its rows in order;
\* a row maps every column name to a cell, Null for a column the frame lacks.
Frame(cols, rows) == [cols |-> cols, rows |-> rows]
EmptyFrame == Frame({}, <<>>)          \* pd.DataFrame()

Rec(key, city, phone, eff, exp, cur) ==
    [c \in Columns |->
        CASE c = business_key -> key
          [] c = "city" -> city
          [] c = "phone" -> phone
          [] c = effective_date_col -> eff
          [] c = expiration_date_col -> exp
          [] c = is_current_col -> cur]

\* DataFrame.empty: some axis has length 0.
IsEmpty(f) == f.rows = <<>> \/ f.cols = {}

\* A validation that does not look for null business keys.
ValidateWithoutNullCheck(existing_records, new_records) ==
    IF business_key \notin new_records.cols THEN "ValueError"
    ELSE IF ~IsEmpty(existing_records) /\ business_key \notin existing_records.cols
         THEN "ValueError"
    ELSE "none"

\* _validate_scd_inputs: the exception it raises, or "none".
_validate_scd_inputs(existing_records, new_records) ==
    IF business_key \notin new_records.cols THEN "ValueError"
    ELSE IF ~IsEmpty(existing_records) /\ business_key \notin existing_records.cols
         THEN "ValueError"
    ELSE IF \E i \in DOMAIN new_records.rows : IsNa(new_records.rows[i][business_key])
         THEN "ValueError"
    ELSE "none"

\* _ensure_scd_columns: each missing metadata column is added with its default.
_ensure_scd_columns(df, default_date) ==
    LET Fill(r) ==
            [c \in Columns |->
                IF c = effective_date_col /\ c \notin df.cols THEN Some(default_date)
                ELSE IF c = expiration_date_col /\ c \notin df.cols THEN Null
                ELSE IF c = is_current_col /\ c \notin df.cols THEN Some(TRUE)
                ELSE r[c]]
    IN  Frame(df.cols \cup {effective_date_col, expiration_date_col, is_current_col},
              [i \in DOMAIN df.rows |-> Fill(df.rows[i])])

\* comparison_columns (line 51): the columns of new_records that are no metadata.
comparison_columns(new_records) == new_records.cols \ scd_metadata_cols

\* A change detection that takes two missing values for a change.
HasDataChangedNaNUnequal(current_record, current_cols, new_record, new_cols, columns) ==
    \E column \in columns :
        /\ column \in current_cols /\ column \in new_cols
        /\ \/ IsNa(current_record[column]) \/ IsNa(new_record[column])
           \/ current_record[column] # new_record[column]

\* _has_data_changed: a column is compared only when both records have it.
_has_data_changed(current_record, current_cols, new_record, new_cols, columns) ==
    \E column \in columns :
        /\ column \in current_cols /\ column \in new_cols
        /\ ~(IsNa(current_record[column]) /\ IsNa(new_record[column]))
        /\ \/ IsNa(current_record[column]) \/ IsNa(new_record[column])
           \/ current_record[column] # new_record[column]

\* current_record_mask (lines 60-61): indices of the rows of the key that are current.
current_record_mask(rows, customer_id) ==
    { i \in DOMAIN rows : rows[i][business_key] = customer_id
                          /\ rows[i][is_current_col] = Some(TRUE) }

\* An expiry that sets the expiration date and leaves is_current as it is.
ExpireKeepingFlag(rows, mask, expiration_date) ==
    [i \in DOMAIN rows |->
        IF i \in mask
        THEN [rows[i] EXCEPT ![expiration_date_col] = Some(expiration_date)]
        ELSE rows[i]]

\* An expiry that clears is_current and sets no expiration date.
ExpireWithoutDate(rows, mask, expiration_date) ==
    [i \in DOMAIN rows |->
        IF i \in mask THEN [rows[i] EXCEPT ![is_current_col] = Some(FALSE)] ELSE rows[i]]

\* _expire_current_record: every row of the mask gets the expiration date and
\* is_current = False.
_expire_current_record(rows, mask, expiration_date) ==
    [i \in DOMAIN rows |->
        IF i \in mask
        THEN [rows[i] EXCEPT ![expiration_date_col] = Some(expiration_date),
                             ![is_current_col] = Some(FALSE)]
        ELSE rows[i]]

\* _create_new_customer_record: the incoming row with the metadata set.
_create_new_customer_record(new_record, new_cols, effective_date) ==
    [c \in Columns |->
        IF c = effective_date_col THEN Some(effective_date)
        ELSE IF c = expiration_date_col THEN Null
        ELSE IF c = is_current_col THEN Some(TRUE)
        ELSE IF c \in new_cols THEN new_record[c]
        ELSE Null]

\* A new version that takes effect the day after the process date.
VersionEffectiveNextDay(new_record, new_cols, effective_date) ==
    _create_new_customer_record(new_record, new_cols, effective_date + 1)

\* _create_new_version_record delegates to _create_new_customer_record.
_create_new_version_record(new_record, new_cols, effective_date) ==
    _create_new_customer_record(new_record, new_cols, effective_date)

\* pd.concat([result_records, one_row_frame], ignore_index=True)
Concat(result, rec, new_cols) ==
    Frame(result.cols \cup new_cols \cup
              {effective_date_col, expiration_date_col, is_current_col},
          Append(result.rows, rec))

\* One iteration of the loop of lines 55-86.
ProcessRow(result, new_record, new_records, date) ==
    LET mask == current_record_mask(result.rows, new_record[business_key])
    IN  IF mask = {}
        THEN Concat(result,
                    _create_new_customer_record(new_record, new_records.cols, date),
                    new_records.cols)
        ELSE LET current_record == result.rows[CHOOSE i \in mask : \A j \in mask : i <= j]
             IN  IF _has_data_changed(current_record, result.cols, new_record,
                                      new_records.cols, comparison_columns(new_records))
                 THEN Concat(Frame(result.cols,
                                   _expire_current_record(result.rows, mask, date)),
                             _create_new_version_record(new_record, new_records.cols, date),
                             new_records.cols)
                 ELSE result

\* The loop over the first n rows of new_records.
RECURSIVE ProcessRows(_, _, _, _)
ProcessRows(result, new_records, n, date) ==
    IF n = 0 THEN result
    ELSE ProcessRow(ProcessRows(result, new_records, n - 1, date),
                    new_records.rows[n], new_records, date)

\* sort_values([business_key, effective_date_col]): stable, missing values last.
CellLess(a, b) == IF IsNa(a) THEN FALSE ELSE IF IsNa(b) THEN TRUE ELSE a[1] < b[1]

SortLess(r1, r2) ==
    \/ CellLess(r1[business_key], r2[business_key])
    \/ /\ ~CellLess(r2[business_key], r1[business_key])
       /\ CellLess(r1[effective_date_col], r2[effective_date_col])

RECURSIVE InsertSorted(_, _)
InsertSorted(sorted, r) ==
    IF sorted = <<>> THEN <<r>>
    ELSE IF SortLess(r, Head(sorted)) THEN <<r>> \o sorted
    ELSE <<Head(sorted)>> \o InsertSorted(Tail(sorted), r)

\* A return statement that hands back the rows in the order of the loop.
Unsorted(rows) == rows

RECURSIVE sort_values(_)
sort_values(rows) ==
    IF rows = <<>> THEN <<>>
    ELSE InsertSorted(sort_values(SubSeq(rows, 1, Len(rows) - 1)), rows[Len(rows)])

\* apply_scd_type2_logic: the frame returned and the exception raised.
\* Selecting the business-key column of a result that lacks it (line 60, or
\* line 88 when new_records has no rows) raises KeyError.
apply_scd_type2_logic(existing_records, new_records, date) ==
    LET v == _validate_scd_inputs(existing_records, new_records)
        result_records == _ensure_scd_columns(existing_records, date)
    IN  IF v # "none" THEN [err |-> v, result |-> EmptyFrame]
        ELSE IF business_key \notin result_records.cols
             THEN [err |-> "KeyError", result |-> EmptyFrame]
        ELSE LET r == ProcessRows(result_records, new_records, Len(new_records.rows), date)
             IN  [err |-> "none", result |-> Frame(r.cols, sort_values(r.rows))]

\* ------------------------------------------------------------------------
\* Object identity inside apply_scd_type2_logic.  A name of the function
\* refers to the caller's existing_records object, to the caller's
\* new_records object, or to an object made during the call ("local").

\* A copy that hands back the object it was asked to copy.
CopyIsSameObject(ref) == ref

\* DataFrame.copy() (lines 43, 133, 195): a new object with the same content.
copy(ref) == "local"

\* An assignment into the object ref (df[col] = ..., df.loc[mask, col] = ...)
\* that leaves it with the content `content`: the caller's frames after it.
WriteInPlace(caller, ref, content) ==
    IF ref = "local" THEN caller ELSE [caller EXCEPT ![ref] = content]

\* The caller's frames and the object result_records refers to after the
\* loop of lines 55-86 has processed the first n rows: pd.concat makes a new
\* object, _expire_current_record writes into a copy of its argument.
RECURSIVE LoopObjects(_, _, _, _, _, _)
LoopObjects(caller, ref, result_records, new_records, n, date) ==
    IF n = 0 THEN [caller |-> caller, ref |-> ref]
    ELSE LET p == LoopObjects(caller, ref, result_records, new_records, n - 1, date)
             result == ProcessRows(result_records, new_records, n - 1, date)
             new_record == new_records.rows[n]
             mask == current_record_mask(result.rows, new_record[business_key])
         IN  IF mask = {} THEN [caller |-> p.caller, ref |-> "local"]
             ELSE IF _has_data_changed(
                         result.rows[CHOOSE i \in mask : \A j \in mask : i <= j],
                         result.cols, new_record, new_records.cols,
                         comparison_columns(new_records))
                  THEN LET updated_records == copy(p.ref)
                       IN  [caller |-> WriteInPlace(p.caller, updated_records,
                                           Frame(result.cols,
                                                 _expire_current_record(result.rows, mask, date))),
                            ref |-> "local"]
                  ELSE p

\* The caller's two frames after apply_scd_type2_logic, raised or returned.
CallerFramesAfter(existing_records, new_records, date) ==
    LET caller == [existing_records |-> existing_records, new_records |-> new_records]
        result_records == copy("existing_records")
        df == copy(result_records)
        ensured == _ensure_scd_columns(existing_records, date)
        afterEnsure == WriteInPlace(caller, df, ensured)
    IN  IF _validate_scd_inputs(existing_records, new_records) # "none" THEN caller
        ELSE IF business_key \notin ensured.cols THEN afterEnsure
        ELSE LoopObjects(afterEnsure, df, ensured, new_records,
                         Len(new_records.rows), date).caller

\* ------------------------------------------------------------------------
\* Reconciler: initial states and the action

FullCols == scd_metadata_cols \cup {"city"}

\* History tables a caller starts from.
Histories ==
    { EmptyFrame,
      Frame(FullCols, <<>>),
      Frame(FullCols, << Rec(Some(1), Some("NYC"), Null, Some(1), Null, Some(TRUE)) >>),
      Frame(FullCols, << Rec(Some(1), Some("LA"), Null, Some(1), Some(1), Some(FALSE)),
                         Rec(Some(1), Null, Null, Some(1), Null, Some(TRUE)),
                         Rec(Some(2), Some("LA"), Null, Some(1), Null, Some(TRUE)) >>),
      Frame({business_key, "city"},
            << Rec(Some(2), Some("LA"), Null, Null, Null, Null),
               Rec(Some(1), Some("NYC"), Null, Null, Null, Null) >>),
      Frame({"city"}, << Rec(Null, Some("NYC"), Null, Null, Null, Null) >>) }

\* Rows of the incoming snapshots, by column set.
KeyCityRows ==
    { Rec(Some(1), c, Null, Null, Null, Null) : c \in {Some("NYC"), Some("LA"), Null} }
    \cup { Rec(Some(2), Some("LA"), Null, Null, Null, Null),
           Rec(Null, Some("NYC"), Null, Null, Null, Null) }

KeyCityPhoneRows ==
    { Rec(Some(1), Some("NYC"), Some("555"), Null, Null, Null),
      Rec(Some(1), Some("NYC"), Null, Null, Null, Null),
      Rec(Some(2), Some("LA"), Some("555"), Null, Null, Null) }

CityRows == { Rec(Null, Some("NYC"), Null, Null, Null, Null) }

\* The incoming snapshots of at most n rows.
Snapshots(n) ==
    { Frame({business_key, "city"}, r) : r \in SeqsUpTo(KeyCityRows, n) }
    \cup { Frame({business_key, "city", "phone"}, r) : r \in SeqsUpTo(KeyCityPhoneRows, n) }
    \cup { Frame({"city"}, r) : r \in SeqsUpTo(CityRows, Min(n, 1)) }

\* The partitioner's variables while only the reconciler runs.
PIdle == PInit

RInit ==
    /\ history \in Histories
    /\ passedExisting = EmptyFrame
    /\ passedIncoming = EmptyFrame
    /\ existing = EmptyFrame
    /\ incoming = EmptyFrame
    /\ process_date = 0
    /\ rerror = "none"
    /\ rcalls = 0
    /\ rowsIn = 0
    /\ seenKeys = {}

KeysOf(rows) == { rows[i][business_key] : i \in DOMAIN rows }

\* history = apply_scd_type2_logic(history, new_records, process_date=date);
\* after a call that raises the caller's table is the object it passed.
Reconcile(new_records, date) ==
    /\ rcalls < MaxReconciles
    /\ rcalls' = rcalls + 1
    /\ rowsIn' = rowsIn + Len(new_records.rows)
    /\ passedExisting' = history
    /\ passedIncoming' = new_records
    /\ LET r == apply_scd_type2_logic(history, new_records, date)
           c == CallerFramesAfter(history, new_records, date)
       IN  /\ rerror' = r.err
           /\ history' = IF r.err = "none" THEN r.result ELSE c.existing_records
           /\ seenKeys' = IF r.err = "none" THEN seenKeys \cup KeysOf(new_records.rows)
                          ELSE seenKeys
           /\ existing' = c.existing_records
           /\ incoming' = c.new_records
    /\ process_date' = date
    /\ UNCHANGED <<pvars, evars, cvars>>

RNext == \E new_records \in Snapshots(MaxIncoming - rowsIn), date \in 1..MaxDate :
             Reconcile(new_records, date)

InitReconciler == RInit /\ PIdle /\ EInit /\ CInit

SpecReconciler == InitReconciler /\ [][RNext]_vars

\* ------------------------------------------------------------------------
\* Reconciler: vocabulary of the properties

BusinessKeys == {Some(1), Some(2)}

\* The last call returned a result.
Reconciled == rcalls > 0 /\ rerror = "none"

\* The result the loop of the last call started from, and the accumulated
\* result before and after it processed incoming row i.
EnsuredExisting == _ensure_scd_columns(existing, process_date)
Before(i) == ProcessRows(EnsuredExisting, incoming, i - 1, process_date)
After(i) == ProcessRows(EnsuredExisting, incoming, i, process_date)

\* The indices of the is-current records of the key of incoming row i, at
\* the moment the row is processed.
CurrentOf(i) == current_record_mask(Before(i).rows, incoming.rows[i][business_key])

\* Processing incoming row i changed the accumulated result.
ChangeRecorded(i) == After(i).rows # Before(i).rows

\* A comparison column differs between a record and an incoming row: the
\* value is null or missing on exactly one side, or non-null and unequal on
\* both (a column a frame lacks reads as Null).
ColumnDiffers(rec, row, c) ==
    \/ IsNa(rec[c]) # IsNa(row[c])
    \/ ~IsNa(rec[c]) /\ ~IsNa(row[c]) /\ rec[c] # row[c]

Differs(rec, row) == \E c \in incoming.cols \ scd_metadata_cols : ColumnDiffers(rec, row, c)

\* The new current record the specification asks for: the incoming
\* attributes, effective = as_of_date, expiration unset, is_current = true.
ExpectedVersion(row) ==
    [c \in Columns |->
        CASE c = effective_date_col -> Some(process_date)
          [] c = expiration_date_col -> Null
          [] c = is_current_col -> Some(TRUE)
          [] OTHER -> IF c \in incoming.cols THEN row[c] ELSE Null]

\* Record j with the expiration date set and the current flag cleared.
Expired(rows, j) ==
    [rows EXCEPT ![j] = [@ EXCEPT ![expiration_date_col] = Some(process_date),
                                  ![is_current_col] = Some(FALSE)]]

\* C3: every business key has at most one is-current record, and every key
\* that appeared in an incoming snapshot has exactly one.
C3_OneCurrentPerKey ==
    \A k \in BusinessKeys :
        /\ Cardinality(current_record_mask(history.rows, k)) <= 1
        /\ k \in seenKeys => Cardinality(current_record_mask(history.rows, k)) = 1

\* A call with two different rows of one key has chained two versions and
\* the key has one current record.
C3_Witness ==
    /\ Reconciled
    /\ Len(incoming.rows) = 2
    /\ incoming.rows[1][business_key] = incoming.rows[2][business_key]
    /\ Len(history.rows) = Len(existing.rows) + 2
    /\ Cardinality(current_record_mask(history.rows, incoming.rows[1][business_key])) = 1

\* C4: an incoming row whose key has exactly one current record and that
\* differs from it on a comparison column expires exactly that record and
\* appends exactly one new current record; no other record changes.
C4_ChangeCreatesVersion ==
    Reconciled =>
        \A i \in DOMAIN incoming.rows :
            \A j \in CurrentOf(i) :
                (CurrentOf(i) = {j} /\ Differs(Before(i).rows[j], incoming.rows[i]))
                    => After(i).rows = Append(Expired(Before(i).rows, j),
                                              ExpectedVersion(incoming.rows[i]))

\* Every incoming row equals the current record of its key on every
\* comparison column.
AllUnchanged ==
    \A i \in DOMAIN incoming.rows :
        LET cur == current_record_mask(EnsuredExisting.rows, incoming.rows[i][business_key])
        IN  /\ cur # {}
            /\ \A j \in cur : ~Differs(EnsuredExisting.rows[j], incoming.rows[i])

\* C5: if every incoming row equals the current record of its key, the call
\* adds no row and expires no record, and a second call with the same
\* snapshot on the result returns the same records.
C5_UnchangedIsIdempotent ==
    (Reconciled /\ AllUnchanged) =>
        /\ history.rows = sort_values(EnsuredExisting.rows)
        /\ apply_scd_type2_logic(history, incoming, process_date)
               = [err |-> "none", result |-> history]

\* Such a call, with two incoming rows, one of them with a null attribute.
C5_Witness ==
    /\ Reconciled /\ AllUnchanged
    /\ Len(incoming.rows) = 2
    /\ \E i \in DOMAIN incoming.rows : IsNa(incoming.rows[i]["city"])

\* C6: an incoming row whose key has no current record (also when existing
\* is pd.DataFrame()) makes the call complete and add exactly one current
\* record for the key, effective at as_of_date, and expires nothing.
C6_NewKey ==
    (rcalls > 0 /\ _validate_scd_inputs(existing, incoming) = "none") =>
        \A i \in DOMAIN incoming.rows :
            CurrentOf(i) = {} =>
                /\ rerror = "none"
                /\ After(i).rows = Append(Before(i).rows, ExpectedVersion(incoming.rows[i]))

\* C10: for an incoming row matched to a current record a change is recorded
\* exactly when some comparison column is null or missing on one side only
\* or non-null and unequal; columns null or missing on both sides record none.
C10_ChangeDetection ==
    Reconciled =>
        \A i \in DOMAIN incoming.rows :
            \A j \in CurrentOf(i) :
                (\A m \in CurrentOf(i) : j <= m)
                    => (ChangeRecorded(i) <=> Differs(Before(i).rows[j], incoming.rows[i]))

\* C11: every call, returned or raised, leaves the caller's existing and
\* incoming frames as they were passed (same columns, same rows, same cells);
\* expirations and new versions are in the returned frame only.
C11_CallerFramesUntouched ==
    rcalls > 0 => existing = passedExisting /\ incoming = passedIncoming

\* A call that expired a current record of the frame it was passed and
\* appended a version: the returned frame no longer holds that record.
C11_Witness ==
    /\ Reconciled
    /\ Len(history.rows) > Len(passedExisting.rows)
    /\ \E i \in DOMAIN passedExisting.rows :
           /\ passedExisting.rows[i][is_current_col] = Some(TRUE)
           /\ \A j \in DOMAIN history.rows : history.rows[j] # passedExisting.rows[i]

\* C12: a call fails with a validation error, and returns nothing, exactly
\* when the business-key column is absent from incoming, or existing has rows
\* and lacks the business-key column, or some incoming row has a null
\* business key; in no other case does validation fail.
C12_ValidationCases ==
    rcalls > 0 =>
        /\ (rerror = "ValueError") <=>
               \/ business_key \notin passedIncoming.cols
               \/ passedExisting.rows # <<>> /\ business_key \notin passedExisting.cols
               \/ \E i \in DOMAIN passedIncoming.rows :
                      passedIncoming.rows[i][business_key] = Null
        /\ rerror = "ValueError" => history = passedExisting

\* A call on a history with rows and the key column was refused because the
\* second incoming row has a null business key.
C12_Witness ==
    /\ rcalls > 0 /\ rerror = "ValueError"
    /\ passedExisting.rows # <<>> /\ business_key \in passedExisting.cols
    /\ business_key \in passedIncoming.cols
    /\ Len(passedIncoming.rows) = 2
    /\ passedIncoming.rows[1][business_key] # Null
    /\ passedIncoming.rows[2][business_key] = Null

\* The incoming rows whose key had no current record when they were
\* processed, and those that differ from the current record of their key on
\* a comparison column.
NewKeyRows == { i \in DOMAIN incoming.rows : CurrentOf(i) = {} }

ChangedRows ==
    { i \in DOMAIN incoming.rows :
        /\ CurrentOf(i) # {}
        /\ Differs(Before(i).rows[CHOOSE j \in CurrentOf(i) : \A m \in CurrentOf(i) : j <= m],
                   incoming.rows[i]) }

\* Two records agree on every column of the set.
SameOn(cols, r1, r2) == \A c \in cols : r1[c] = r2[c]

\* C18: every record of existing that is expired or whose key is not in
\* incoming is in the result with every field it had unchanged; no record is
\* removed (each is in the result, at most its expiration and current flag
\* changed); the result has rows(existing) + new-key rows + changed rows
\* records.
C18_HistoryPreserved ==
    Reconciled =>
        /\ \A i \in DOMAIN passedExisting.rows :
               LET rec == passedExisting.rows[i]
               IN  (rec[is_current_col] = Some(FALSE)
                        \/ rec[business_key] \notin KeysOf(passedIncoming.rows))
                       => \E j \in DOMAIN history.rows :
                              SameOn(passedExisting.cols, history.rows[j], rec)
        /\ \A i \in DOMAIN passedExisting.rows :
               \E j \in DOMAIN history.rows :
                   SameOn(passedExisting.cols \ {expiration_date_col, is_current_col},
                          history.rows[j], passedExisting.rows[i])
        /\ Len(history.rows) = Len(passedExisting.rows)
                                   + Cardinality(NewKeyRows) + Cardinality(ChangedRows)

\* C19: the rows of the returned frame are in ascending order of business
\* key and, within one key, of effective date, whatever the order of the
\* rows of existing and incoming.
C19_ResultOrdered ==
    Reconciled =>
        \A i, j \in DOMAIN history.rows :
            i < j =>
                \/ history.rows[i][business_key][1] < history.rows[j][business_key][1]
                \/ /\ history.rows[i][business_key] = history.rows[j][business_key]
                   /\ history.rows[i][effective_date_col][1]
                          <= history.rows[j][effective_date_col][1]

\* A call whose loop left the rows in another order than the one returned:
\* existing was not in key order or a version was appended after a higher key.
C19_Witness ==
    /\ Reconciled
    /\ Len(history.rows) >= 3
    /\ history.rows # After(Len(incoming.rows)).rows

\* The incoming rows of key k, in order.
RowsOfKey(k) == SelectSeq(incoming.rows, LAMBDA r : r[business_key] = k)

\* The version the specification asks for, expired at the process date.
ExpiredVersion(row) ==
    [ExpectedVersion(row) EXCEPT ![expiration_date_col] = Some(process_date),
                                 ![is_current_col] = Some(FALSE)]

\* The indices of the rows of a history that equal a record.
Occurrences(rows, rec) == { i \in DOMAIN rows : rows[i] = rec }

\* C26: when incoming holds k rows of one key, the key has one current
\* record, the first row differs from it and each later row differs from the
\* row before it, the call adds k versions of the key: the last row's, which
\* is the key's only current record, and k-1 that are expired with
\* effective = expiration = as_of_date.
C26_DuplicatesChain ==
    Reconciled =>
        \A k \in BusinessKeys :
            LET rs == RowsOfKey(k)
                cur == current_record_mask(EnsuredExisting.rows, k)
                ofKey(rows) == { i \in DOMAIN rows : rows[i][business_key] = k }
            IN  (/\ rs # <<>>
                 /\ Cardinality(cur) = 1
                 /\ \A j \in cur : Differs(EnsuredExisting.rows[j], rs[1])
                 /\ \A m \in 2..Len(rs) : Differs(ExpectedVersion(rs[m - 1]), rs[m]))
                => /\ Cardinality(ofKey(history.rows))
                          = Cardinality(ofKey(EnsuredExisting.rows)) + Len(rs)
                   /\ \A i \in current_record_mask(history.rows, k) :
                          history.rows[i] = ExpectedVersion(rs[Len(rs)])
                   /\ Cardinality(current_record_mask(history.rows, k)) = 1
                   /\ \A m \in 1..(Len(rs) - 1) :
                          Occurrences(history.rows, ExpiredVersion(rs[m])) # {}

\* is_current is true exactly when the expiration date is unset.
FlagMatchesExpiration(rows) ==
    \A i \in DOMAIN rows :
        (rows[i][is_current_col] = Some(TRUE)) <=> (rows[i][expiration_date_col] = Null)

\* C28: if every record of existing has is_current = true exactly when its
\* expiration date is unset, every record of the result has; so the property
\* is kept over any sequence of calls.
C28_FlagMatchesExpiration ==
    (Reconciled /\ FlagMatchesExpiration(passedExisting.rows))
        => FlagMatchesExpiration(history.rows)

\* A second call that expired a record that was current and appended its
\* new version.
C28_Witness ==
    /\ Reconciled /\ rcalls = 2
    /\ passedExisting.rows # <<>>
    /\ FlagMatchesExpiration(passedExisting.rows)
    /\ \E i \in DOMAIN passedExisting.rows :
           /\ passedExisting.rows[i][is_current_col] = Some(TRUE)
           /\ Occurrences(history.rows,
                          [passedExisting.rows[i] EXCEPT
                              ![expiration_date_col] = Some(process_date),
                              ![is_current_col] = Some(FALSE)]) # {}
    /\ Len(history.rows) > Len(passedExisting.rows)

\* Every record with an expiration date became effective no later than it
\* expires, and another record of its key is effective from that date.
VersionsChained(rows) ==
    \A i \in DOMAIN rows :
        rows[i][expiration_date_col] # Null =>
            /\ rows[i][effective_date_col] # Null
            /\ rows[i][effective_date_col][1] <= rows[i][expiration_date_col][1]
            /\ \E j \in DOMAIN rows :
                   /\ j # i
                   /\ rows[j][business_key] = rows[i][business_key]
                   /\ rows[j][effective_date_col] = rows[i][expiration_date_col]

\* No record of the frame is effective after the date.
EffectiveBy(f, date) ==
    \A i \in DOMAIN f.rows :
        f.rows[i][effective_date_col] = Null \/ f.rows[i][effective_date_col][1] <= date

\* C29: a call whose as_of_date is not before any effective date of the
\* history keeps: effective <= expiration for every record that has an
\* expiration date, and the expiration date of an expired version is the
\* effective date of the version that replaced it.  Calls with
\* non-decreasing as_of_dates, from a history effective by the first of
\* them, are such calls.
C29_VersionsChained ==
    (Reconciled /\ EffectiveBy(passedExisting, process_date)
                /\ VersionsChained(passedExisting.rows))
        => VersionsChained(history.rows)

\* A second call, at a later date than the first, expired a record that had
\* become effective at the first date.
C29_Witness ==
    /\ Reconciled /\ rcalls = 2 /\ process_date = 2
    /\ EffectiveBy(passedExisting, process_date)
    /\ VersionsChained(passedExisting.rows)
    /\ \E i \in DOMAIN history.rows :
           /\ history.rows[i][effective_date_col] = Some(1)
           /\ history.rows[i][expiration_date_col] = Some(2)
           /\ Occurrences(passedExisting.rows, history.rows[i]) = {}

\* The permutations of the indices of a sequence.
RowOrders(q) ==
    { o \in [DOMAIN q -> DOMAIN q] : \A i, j \in DOMAIN q : i # j => o[i] # o[j] }

\* C30: for an incoming snapshot without duplicate business keys, every
\* order of its rows makes the call return the same records, also when
\* incoming has a column the history lacks.
C30_OrderIndependent ==
    (Reconciled /\ \A i, j \in DOMAIN passedIncoming.rows :
                       i # j => passedIncoming.rows[i][business_key]
                                    # passedIncoming.rows[j][business_key])
        => \A o \in RowOrders(passedIncoming.rows) :
               LET permuted == Frame(passedIncoming.cols,
                                     [i \in DOMAIN passedIncoming.rows |->
                                         passedIncoming.rows[o[i]]])
                   r == apply_scd_type2_logic(passedExisting, permuted, process_date)
               IN  /\ r.err = "none"
                   /\ r.result.cols = history.cols
                   /\ SeqToBag(r.result.rows) = SeqToBag(history.rows)

\* ------------------------------------------------------------------------
\* extract_api_data (src/follow-up/instructions/test2.py)
\* ------------------------------------------------------------------------

\* A response body: the key that holds the list, the number of its items,
\* the has_more field ("absent", "true", "false") and whether `next` is set;
\* or an HTTP error, which raise_for_status turns into an exception.
Responses ==
    [error : {FALSE}, key : {"data", "results", "other"}, n : 0..PageSize,
     has_more : {"absent", "true", "false"}, next : BOOLEAN]
    \cup { [error |-> TRUE, key |-> "other", n |-> 0, has_more |-> "absent", next |-> FALSE] }

\* The items the server puts on a page: item i of page p.
Items(p, n) == [i \in 1..n |-> [page |-> p, idx |-> i]]

\* _extract_data_from_response: the list under data / results / items, else [].
_extract_data_from_response(response_data, page) ==
    IF response_data.key \in {"data", "results", "items"}
    THEN Items(page, response_data.n)
    ELSE <<>>

\* _should_continue_pagination
_should_continue_pagination(response_data, page_data, page_size) ==
    IF response_data.has_more # "absent" THEN response_data.has_more = "true"
    ELSE IF response_data.next THEN TRUE
    ELSE IF Len(page_data) < page_size THEN FALSE
    ELSE TRUE

\* `if max_pages and ...`: None and 0 are falsy.
Truthy(n) == n # NoInt /\ n[1] # 0

RECURSIVE MinOf(_)
MinOf(q) == IF Len(q) = 1 THEN q[1] ELSE Min(q[1], MinOf(Tail(q)))

\* _RateLimiter.wait_if_needed at time current_time: the list it leaves in
\* self.requests and the time it sleeps.
wait_if_needed(reqs, current_time, max_requests, time_window) ==
    LET kept == SelectSeq(reqs, LAMBDA req_time : current_time - req_time < time_window)
        wait_time == IF Len(kept) >= max_requests
                     THEN time_window - (current_time - MinOf(kept))
                     ELSE 0
    IN  [requests |-> Append(kept, current_time),
         slept |-> IF wait_time > 0 THEN wait_time ELSE 0]

\* extract_api_data(..., rate_limit_requests, rate_limit_period, max_pages)
\* up to the loop (lines 288-309).
Start(mp, rate, period) ==
    /\ estate = "idle"
    /\ estate' = "loop"
    /\ max_pages' = mp
    /\ rate_limit_requests' = rate
    /\ rate_limit_period' = period
    /\ current_page' = 1
    /\ all_data' = <<>>
    /\ requests' = <<>>
    /\ issued' = <<>>
    /\ fetched' = <<>>
    /\ UNCHANGED clock
    /\ UNCHANGED <<pvars, rvars, cvars>>

\* The top of the loop (lines 311-316): the page limit, then wait_if_needed.
LoopTop ==
    /\ estate = "loop"
    /\ IF Truthy(max_pages) /\ current_page > max_pages[1]
       THEN /\ estate' = "done"
            /\ UNCHANGED <<clock, requests>>
       ELSE LET w == wait_if_needed(requests, clock, rate_limit_requests,
                                    rate_limit_period)
            IN  /\ Len(issued) < MaxRequests
                /\ clock + w.slept <= MaxTime
                /\ requests' = w.requests
                /\ clock' = clock + w.slept
                /\ estate' = "ready"
    /\ UNCHANGED <<max_pages, rate_limit_requests, rate_limit_period, current_page,
                   all_data, issued, fetched>>
    /\ UNCHANGED <<pvars, rvars, cvars>>

\* The request of the current page and the rest of the iteration (lines
\* 318-346), the server answering response_data.
Request(response_data) ==
    /\ estate = "ready"
    /\ issued' = Append(issued, [time |-> clock, page |-> current_page])
    /\ IF response_data.error
       THEN /\ estate' = "raised"
            /\ UNCHANGED <<current_page, all_data, fetched>>
       ELSE LET page_data == _extract_data_from_response(response_data, current_page)
            IN  /\ fetched' = Append(fetched, page_data)
                /\ IF page_data = <<>>
                   THEN /\ estate' = "done"
                        /\ UNCHANGED <<current_page, all_data>>
                   ELSE /\ all_data' = all_data \o page_data
                        /\ IF _should_continue_pagination(response_data, page_data,
                                                          PageSize)
                           THEN estate' = "loop" /\ current_page' = current_page + 1
                           ELSE estate' = "done" /\ UNCHANGED current_page
    /\ UNCHANGED <<max_pages, rate_limit_requests, rate_limit_period, clock, requests>>
    /\ UNCHANGED <<pvars, rvars, cvars>>

\* Time passes while the run is in progress.
ETick ==
    /\ estate \in {"loop", "ready"}
    /\ clock < MaxTime
    /\ clock' = clock + 1
    /\ UNCHANGED <<estate, max_pages, rate_limit_requests, rate_limit_period,
                   current_page, all_data, requests, issued, fetched>>
    /\ UNCHANGED <<pvars, rvars, cvars>>

\* max_pages arguments a caller passes.
MaxPagesArgs == {NoInt} \cup { Some(n) : n \in 0..MaxPagesArg }

ENext ==
    \/ \E mp \in MaxPagesArgs, rate \in 1..MaxRate, period \in 1..MaxPeriod :
           Start(mp, rate, period)
    \/ LoopTop
    \/ \E response_data \in Responses : Request(response_data)
    \/ ETick

InitExtractor == EInit /\ PIdle /\ RIdle /\ CInit

SpecExtractor == InitExtractor /\ [][ENext]_vars

\* The requests sent in the window of length rate_limit_period that starts
\* with request i.
InWindow(i) ==
    { j \in DOMAIN issued :
        /\ issued[j].time >= issued[i].time
        /\ issued[j].time < issued[i].time + rate_limit_period }

\* C21: during one run, every time interval of rate_limit_period seconds
\* holds at most rate_limit_requests of the requests sent.
C21_RateLimit ==
    \A i \in DOMAIN issued : Cardinality(InWindow(i)) <= rate_limit_requests

RECURSIVE Flatten(_)
Flatten(pages) == IF pages = <<>> THEN <<>> ELSE Head(pages) \o Flatten(Tail(pages))

\* C22: with max_pages given (0 included) a run sends at most max_pages
\* requests, for pages 1, 2, 3, ... in order, and what it returns is the
\* data of the pages received, in page order.
C22_MaxPages ==
    (estate # "idle" /\ max_pages # NoInt) =>
        /\ Len(issued) <= max_pages[1]
        /\ \A i \in DOMAIN issued : issued[i].page = i
        /\ estate = "done" => all_data = Flatten(fetched)

\* ------------------------------------------------------------------------
\* clean (src/Modules/Modules_2-3/Exercises/copilot-code-review-exercise/etl/etl.py)
\* ------------------------------------------------------------------------

\* Text cells are sequences of characters; a date text is Some of its three
\* fields as written (mm/dd/yyyy); a missing cell is Null.  Numbers are in
\* tenths, products in hundredths.
DaysIn(m, y) ==
    IF m = 2 THEN (IF y % 4 = 0 /\ (y % 100 # 0 \/ y % 400 = 0) THEN 29 ELSE 28)
    ELSE IF m \in {4, 6, 9, 11} THEN 30 ELSE 31

\* parse_date: strptime(s, "%m/%d/%Y"), and datetime.now() when it raises
\* (for a text that is no date and for a missing value alike).
parse_date(s) ==
    IF s # <<>> /\ s[1].m \in 1..12 /\ s[1].d \in 1..DaysIn(s[1].m, s[1].y)
    THEN [kind |-> "datetime", y |-> s[1].y, m |-> s[1].m, d |-> s[1].d]
    ELSE [kind |-> "now", y |-> 0, m |-> 0, d |-> 0]

DigitChars == {"0", "1", "2", "3", "4", "5", "6", "7", "8", "9"}

Digit(c) ==
    CASE c = "0" -> 0 [] c = "1" -> 1 [] c = "2" -> 2 [] c = "3" -> 3 [] c = "4" -> 4
      [] c = "5" -> 5 [] c = "6" -> 6 [] c = "7" -> 7 [] c = "8" -> 8 [] c = "9" -> 9

RECURSIVE DigitsValue(_)
DigitsValue(q) ==
    IF q = <<>> THEN 0 ELSE DigitsValue(SubSeq(q, 1, Len(q) - 1)) * 10 + Digit(q[Len(q)])

\* The text is a decimal numeral with at most one fraction digit.
IsNumeral(t) ==
    /\ t # <<>>
    /\ \A i \in DOMAIN t : t[i] \in DigitChars \/ (t[i] = "." /\ i = Len(t) - 1 /\ i > 1)

\* A conversion that drops the fraction digits.
FloatOfWholePart(t) ==
    IF \E i \in DOMAIN t : t[i] = "."
    THEN DigitsValue(SubSeq(t, 1, Len(t) - 2)) * 10
    ELSE DigitsValue(t) * 10

\* float(text), in tenths.
FloatOf(t) ==
    IF \E i \in DOMAIN t : t[i] = "."
    THEN DigitsValue(SubSeq(t, 1, Len(t) - 2)) * 10 + Digit(t[Len(t)])
    ELSE DigitsValue(t) * 10

\* Series.astype(float) on one cell: a missing value stays missing (NaN), a
\* text that is no numeral raises ValueError.
astype_float(cell) ==
    IF cell = <<>> THEN [err |-> "none", value |-> <<>>]
    ELSE IF IsNumeral(cell[1]) THEN [err |-> "none", value |-> Some(FloatOf(cell[1]))]
    ELSE [err |-> "ValueError", value |-> <<>>]

\* df["amount"].astype(float) * df["fx_rate"].astype(float) on one row.
amount_usd(row) ==
    LET a == astype_float(row.amount)
        f == astype_float(row.fx_rate)
    IN  IF a.err # "none" THEN [err |-> a.err, value |-> <<>>]
        ELSE IF f.err # "none" THEN [err |-> f.err, value |-> <<>>]
        ELSE IF a.value = <<>> \/ f.value = <<>> THEN [err |-> "none", value |-> <<>>]
        ELSE [err |-> "none", value |-> Some(a.value[1] * f.value[1])]

\* fillna("UNK") on one cell.
fillna(cell) == IF cell = <<>> THEN Some("UNK") ELSE cell

\* clean(df): the exception raised and the rows returned.
clean(df) ==
    IF \E i \in DOMAIN df : amount_usd(df[i]).err # "none"
    THEN [err |-> "ValueError", rows |-> <<>>]
    ELSE [err |-> "none",
          rows |-> [i \in DOMAIN df |->
                      [txn_id |-> df[i].txn_id,
                       txn_date |-> parse_date(df[i].txn_date),
                       amount |-> df[i].amount,
                       fx_rate |-> df[i].fx_rate,
                       country |-> fillna(df[i].country),
                       amount_usd |-> amount_usd(df[i]).value]]]

\* Cells of the datasets passed to clean.
CleanCells ==
        { [txn_date |-> Some([m |-> 1, d |-> 2, y |-> 2024]),
            amount |-> Some(<<"1", "0">>), fx_rate |-> Some(<<"3", ".", "5">>),
            country |-> Some("IL")],
          [txn_date |-> Some([m |-> 2, d |-> 30, y |-> 2024]),
            amount |-> Some(<<"2", "0", ".", "5">>), fx_rate |-> Some(<<"3", ".", "6">>),
            country |-> Null],
          [txn_date |-> Null, amount |-> Null, fx_rate |-> Some(<<"3", ".", "5">>),
            country |-> Null],
          [txn_date |-> Some([m |-> 1, d |-> 2, y |-> 2024]),
            amount |-> Some(<<"a">>), fx_rate |-> Some(<<"3", ".", "5">>),
            country |-> Some("IL")] }

\* Rows of the datasets: every kind of cells under id 1, and the all-numeric
\* kinds under id 2 as well.
CleanRows ==
    { r \in { [txn_id |-> id, txn_date |-> c.txn_date, amount |-> c.amount,
               fx_rate |-> c.fx_rate, country |-> c.country] :
                   id \in {1, 2}, c \in CleanCells } :
        r.txn_id = 1 \/ (r.amount # Null /\ IsNumeral(r.amount[1])) }

\* out = clean(df): the duplicate test reads seen_ids before the ids of df
\* are added to it.
Clean(df) ==
    /\ cleanCalls < MaxCleans
    /\ cleanCalls' = cleanCalls + 1
    /\ cleanGiven' = df
    /\ LET r == clean(df)
       IN  /\ cleanError' = r.err
           /\ cleanOut' = IF r.err = "none" THEN Some(r.rows) ELSE NoValue
           /\ duplicatesPrinted' =
                  (r.err = "none" /\ \E i \in DOMAIN df : df[i].txn_id \in seen_ids)
           /\ seen_ids' = IF r.err = "none"
                          THEN seen_ids \cup { df[i].txn_id : i \in DOMAIN df }
                          ELSE seen_ids
    /\ UNCHANGED <<pvars, rvars, evars>>

CNext == \E df \in SeqsUpTo(CleanRows, MaxCleanRows) : Clean(df)

InitClean == CInit /\ PIdle /\ RIdle /\ EInit

SpecClean == InitClean /\ [][CNext]_vars

\* All four utilities side by side.
Init == PInit /\ RInit /\ EInit /\ CInit
Next == PNext \/ RNext \/ ENext \/ CNext
Spec == Init /\ [][Next]_vars

\* The value, in tenths, of the numerals the datasets use.
NumeralValue(t) ==
    CASE t = <<"1", "0">> -> 100
      [] t = <<"2", "0", ".", "5">> -> 205
      [] t = <<"3", ".", "5">> -> 35
      [] t = <<"3", ".", "6">> -> 36

NumeralTexts == { <<"1", "0">>, <<"2", "0", ".", "5">>, <<"3", ".", "5">>, <<"3", ".", "6">> }

\* Every amount and fx_rate of the dataset is a numeral or missing.
AllNumeric(df) ==
    \A i \in DOMAIN df :
        /\ df[i].amount = Null \/ df[i].amount[1] \in NumeralTexts
        /\ df[i].fx_rate = Null \/ df[i].fx_rate[1] \in NumeralTexts

\* amount times fx_rate of a row, in hundredths; missing when either is.
ExpectedUsd(row) ==
    IF row.amount = Null \/ row.fx_rate = Null THEN Null
    ELSE Some(NumeralValue(row.amount[1]) * NumeralValue(row.fx_rate[1]))

\* C23: clean on a dataset with the five columns (numeric amounts and rates)
\* does not raise, whatever its dates and countries and whatever ids earlier
\* calls have seen; it returns as many rows as it was passed, each with
\* amount_usd = amount * fx_rate and a non-null country.
C23_Clean ==
    (cleanCalls > 0 /\ AllNumeric(cleanGiven)) =>
        /\ cleanError = "none"
        /\ cleanOut # NoValue
        /\ Len(cleanOut[1]) = Len(cleanGiven)
        /\ \A i \in DOMAIN cleanGiven :
               /\ cleanOut[1][i].amount_usd = ExpectedUsd(cleanGiven[i])
               /\ cleanOut[1][i].country # Null

\* A second clean call on the two rows of the repository's test, after an
\* earlier call has seen one of their ids.
C23_Witness ==
    /\ cleanCalls = 2 /\ duplicatesPrinted
    /\ cleanError = "none"
    /\ Len(cleanGiven) = 2
    /\ cleanGiven[1].amount = Some(<<"1", "0">>)
    /\ cleanGiven[2].amount = Some(<<"2", "0", ".", "5">>)
    /\ cleanGiven[2].country = Null
    /\ parse_date(cleanGiven[2].txn_date).kind = "now"

====
